---- MODULE Spec2Model ----
(***************************************************************************)
(* Model of the ferrite adapter (src/ferrite/account.py and                *)
(* src/ferrite/__init__.py): the rebinding of the six eth-account          *)
(* call-sites by patch_eth_account, and the six signing wrappers with the  *)
(* key decoding, the transaction sanitizer, the JSON serialisation and the *)
(* reconstruction of the result from the backend's response.               *)
(*                                                                         *)
(* Python values are tagged records: [t |-> "int", v |-> n],               *)
(* [t |-> "str", v |-> <<chars>>], [t |-> "bytes", v |-> <<byte values>>], *)
(* [t |-> "bool", v |-> b], [t |-> "none"].  A str is a sequence of        *)
(* one-character strings, a dict is a sequence of [k, v] entries in        *)
(* insertion order, and dict objects live in a heap so that aliasing and   *)
(* copying are distinguishable.                                            *)
(***************************************************************************)
EXTENDS Integers, Sequences, FiniteSets, TLC

VARIABLES
    bound,      \* bound[i]: handler bound at call-site i; <<>> is "no such attribute"
    rejects,    \* call-sites whose setattr raises: a fixed property of the host
    prior,      \* history: the handlers bound when the process started
    imported,   \* TRUE once `import ferrite` has completed
    invoked,    \* number of patch_eth_account invocations so far
    outcome,    \* how the latest patch_eth_account invocation ended
    pc,         \* pc[t]: number of setattr steps thread t has executed
    writes,     \* history: writes[i] = sequence of threads that rebound call-site i
    heap,       \* dict objects, by reference
    last,       \* record of the latest signing / sanitize call ("idle" between calls)
    answers,    \* the backend's sign_hash function as far as it has been asked
    signed      \* history: the results hash-signing calls returned, by (hash, key)

vars == <<bound, rejects, prior, imported, invoked, outcome, pc, writes, heap, last,
          answers, signed>>

----------------------------------------------------------------------------
(* Bounds *)

MaxInvocations == 3
NThreads == 2

----------------------------------------------------------------------------
(* The patch registry: src/ferrite/account.py, patch_eth_account *)

\* The six setattr calls of patch_eth_account, in program order.
Bindings ==
    << [ns |-> "LocalAccount", attr |-> "_sign_hash",       fn |-> "_sign_hash_wrapper"],
       [ns |-> "EthAccount",   attr |-> "_sign_hash",       fn |-> "_account_sign_hash_wrapper"],
       [ns |-> "LocalAccount", attr |-> "sign_typed_data",  fn |-> "_sign_typed_data_wrapper"],
       [ns |-> "EthAccount",   attr |-> "sign_typed_data",  fn |-> "_account_sign_typed_data_wrapper"],
       [ns |-> "LocalAccount", attr |-> "sign_transaction", fn |-> "_sign_transaction_wrapper"],
       [ns |-> "EthAccount",   attr |-> "sign_transaction", fn |-> "_account_sign_transaction_wrapper"] >>

Slots == 1..Len(Bindings)

\* A handler is the sequence of functions a call passes through, outermost
\* first.  The host library's own method is <<"original">>.
Original == <<"original">>
NoAttr == <<>>

\* A replacement that keeps the handler it displaces underneath itself.
ReplacementWrapping(i, cur) == <<Bindings[i].fn>> \o cur

\* setattr(ns, attr, wrapper): the wrapper is a module-level function that
\* calls the backend itself, so the new handler does not depend on `cur`.
Replacement(i, cur) == <<Bindings[i].fn>>

\* An installer that skips a rejecting setattr and goes on to the next.
ApplyBindingsContinuing(b, rej, i) ==
    [bound |-> [j \in Slots |-> IF j < i \/ j \in rej THEN b[j] ELSE Replacement(j, b[j])],
     status |-> IF \E j \in rej : j >= i THEN "raised" ELSE "returned",
     failedAt |-> IF \E j \in rej : j >= i
                  THEN CHOOSE j \in rej : j >= i /\ \A m \in rej : m >= i => j <= m
                  ELSE 0]

\* The body of the try block from setattr number i on: the first rejecting
\* setattr raises and the remaining ones are not executed.
RECURSIVE ApplyBindings(_, _, _)
ApplyBindings(b, rej, i) ==
    IF i > Len(Bindings) THEN [bound |-> b, status |-> "returned", failedAt |-> 0]
    ELSE IF i \in rej THEN [bound |-> b, status |-> "raised", failedAt |-> i]
    ELSE ApplyBindings([b EXCEPT ![i] = Replacement(i, b[i])], rej, i + 1)

\* A return value that tells a first installation from a repeated one.
PatchReturnValueReporting(b) ==
    IF \A i \in Slots : b[i] = <<Bindings[i].fn>> THEN "already installed" ELSE "fresh"

\* patch_eth_account is declared -> None and has no return statement.
PatchReturnValue(b) == "None"

\* One whole invocation of patch_eth_account from bindings b.
PatchEthAccountCall(b, rej) ==
    LET r == ApplyBindings(b, rej, 1)
    IN  [bound |-> r.bound,
         outcome |-> IF r.status = "returned"
                     THEN [status |-> "returned", ret |-> PatchReturnValue(b),
                           failedAt |-> 0, before |-> b]
                     ELSE [status |-> "raised", ret |-> "no value",
                           failedAt |-> r.failedAt, before |-> b]]

NoOutcome == [status |-> "none", ret |-> "no value", failedAt |-> 0, before |-> <<>>]
Idle == [op |-> "idle"]

\* The handlers the program still holds a reference to for call-site i: the
\* ones reachable from the namespace attribute.  patch_eth_account stores
\* nothing else.
Retained(i) == {<<bound[i][j]>> : j \in 1..Len(bound[i])}

InitHost ==
    /\ bound \in [Slots -> {NoAttr, Original}]
    /\ prior = bound
    /\ imported = FALSE
    /\ invoked = 0
    /\ outcome = NoOutcome
    /\ pc = [t \in 1..NThreads |-> 0]
    /\ writes = [i \in Slots |-> <<>>]
    /\ heap = <<>>
    /\ last = Idle
    /\ answers = {}
    /\ signed = {}

Init ==
    /\ InitHost
    /\ rejects \in SUBSET Slots

\* `import ferrite`: __init__.py imports eth_account (line 17) before it runs
\* _apply_patch (line 101), so the test of line 93 is true and the patch is
\* applied.  When the patch raises, the import fails and can be retried.
ApplyPatch ==
    /\ ~imported
    /\ invoked < MaxInvocations
    /\ LET r == PatchEthAccountCall(bound, rejects)
       IN  /\ bound' = r.bound
           /\ outcome' = r.outcome
           /\ imported' = (r.outcome.status = "returned")
    /\ invoked' = invoked + 1
    /\ UNCHANGED <<rejects, prior, pc, writes, heap, last, answers, signed>>

\* A later, explicit call of patch_eth_account.
PatchEthAccount ==
    /\ imported
    /\ invoked < MaxInvocations
    /\ LET r == PatchEthAccountCall(bound, rejects)
       IN  /\ bound' = r.bound
           /\ outcome' = r.outcome
    /\ invoked' = invoked + 1
    /\ UNCHANGED <<rejects, prior, imported, pc, writes, heap, last, answers, signed>>

Next == ApplyPatch \/ PatchEthAccount

Spec == Init /\ [][Next]_vars

----------------------------------------------------------------------------
(* Python values and conversions used by the wrappers *)

MaxStrLen == 3
KeyLen == 1
FieldLen == 2

IntV(n) == [t |-> "int", v |-> n]
StrV(s) == [t |-> "str", v |-> s]
BytesV(b) == [t |-> "bytes", v |-> b]
BoolV(b) == [t |-> "bool", v |-> b]
NoneV == [t |-> "none"]

NoExc == [type |-> "none", arg |-> ""]
Exc(type, arg) == [type |-> type, arg |-> arg]

\* All sequences over S of length lo..hi.
SeqsUpTo(S, lo, hi) == UNION {[1..n -> S] : n \in lo..hi}

\* U+00B2 SUPERSCRIPT TWO: str.isdigit() is true of it, int() rejects it.
Sup2 == "SUPERSCRIPT TWO"
DecimalChars == {"0", "1", "2", "3", "4", "5", "6", "7", "8", "9"}
DigitChars == DecimalChars \cup {Sup2}
WhitespaceChars == {" "}

HexDigits == <<"0", "1", "2", "3", "4", "5", "6", "7", "8", "9", "a", "b", "c", "d", "e", "f">>
UpperHexDigits == <<"0", "1", "2", "3", "4", "5", "6", "7", "8", "9", "A", "B", "C", "D", "E", "F">>
HexChars == {HexDigits[i] : i \in 1..16} \cup {UpperHexDigits[i] : i \in 1..16}
HexValue(c) == (CHOOSE i \in 1..16 : HexDigits[i] = c \/ UpperHexDigits[i] = c) - 1
DecimalValue(c) == HexValue(c)

RECURSIVE DigitsOf(_, _)
DigitsOf(n, base) ==
    IF n < base THEN <<HexDigits[n + 1]>>
    ELSE DigitsOf(n \div base, base) \o <<HexDigits[(n % base) + 1]>>

\* Python's hex(n): '0x64' for 100, '-0x1' for -1.
PyHex(n) == IF n < 0 THEN <<"-", "0", "x">> \o DigitsOf(-n, 16)
            ELSE <<"0", "x">> \o DigitsOf(n, 16)

\* str(n) as json.dumps writes an int.
PyStr(n) == IF n < 0 THEN <<"-">> \o DigitsOf(-n, 10) ELSE DigitsOf(n, 10)

\* s.startswith("0x")
StartsWith0x(s) == Len(s) >= 2 /\ s[1] = "0" /\ s[2] = "x"

\* s.isdigit(): non-empty and every character has the Unicode digit property.
IsDigit(s) == Len(s) > 0 /\ \A i \in 1..Len(s) : s[i] \in DigitChars

RECURSIVE DecimalOf(_)
DecimalOf(s) ==
    IF s = <<>> THEN 0
    ELSE 10 * DecimalOf(SubSeq(s, 1, Len(s) - 1)) + DecimalValue(s[Len(s)])

\* int(s) for a string that passed isdigit(): ValueError unless every
\* character is a decimal digit.
PyInt(s) ==
    IF \A i \in 1..Len(s) : s[i] \in DecimalChars
    THEN [ok |-> TRUE, v |-> DecimalOf(s), exc |-> NoExc]
    ELSE [ok |-> FALSE, v |-> 0, exc |-> Exc("ValueError", "int")]

\* bytes.fromhex(s): ASCII whitespace is skipped before each two-digit pair;
\* anything else that is not a pair of hex digits raises ValueError.
RECURSIVE FromHex(_)
FromHex(s) ==
    IF s = <<>> THEN [ok |-> TRUE, v |-> <<>>]
    ELSE IF s[1] \in WhitespaceChars THEN FromHex(Tail(s))
    ELSE IF Len(s) < 2 \/ s[1] \notin HexChars \/ s[2] \notin HexChars
    THEN [ok |-> FALSE, v |-> <<>>]
    ELSE LET rest == FromHex(SubSeq(s, 3, Len(s)))
         IN  IF rest.ok
             THEN [ok |-> TRUE, v |-> <<16 * HexValue(s[1]) + HexValue(s[2])>> \o rest.v]
             ELSE rest

\* int.from_bytes(b, "big"): any length is accepted, b"" gives 0.
RECURSIVE IntFromBytes(_)
IntFromBytes(b) ==
    IF b = <<>> THEN 0
    ELSE 256 * IntFromBytes(SubSeq(b, 1, Len(b) - 1)) + b[Len(b)]

\* HexBytes(b) of a bytes value keeps the bytes.
HexBytes(b) == [t |-> "HexBytes", v |-> b]

----------------------------------------------------------------------------
(* Dicts: sequences of entries in insertion order, held in a heap *)

Entry(k, v) == [k |-> k, v |-> v]
HasKey(d, k) == \E j \in 1..Len(d) : d[j].k = k
Get(d, k) == d[CHOOSE j \in 1..Len(d) : d[j].k = k].v
\* d[k] = v for a key that is present: the entry keeps its position.
Set(d, k, v) == [j \in 1..Len(d) |-> IF d[j].k = k THEN Entry(k, v) ELSE d[j]]
Keys(d) == {d[j].k : j \in 1..Len(d)}

\* A "copy" that hands back the same object.
DictAlias(h, r) == [heap |-> h, ref |-> r]

\* transaction_dict.copy(): a new dict object with the same entries.
DictCopy(h, r) == [heap |-> Append(h, h[r]), ref |-> Len(h) + 1]

----------------------------------------------------------------------------
(* The transaction field sanitizer: account.py, _sanitize_transaction *)

\* An allow-list that also rewrites the data field.
FieldsToHexWithData ==
    <<"value", "gas", "gasPrice", "maxFeePerGas", "maxPriorityFeePerGas", "nonce", "chainId",
      "data">>

\* fields_to_hex, lines 112-120
FieldsToHex ==
    <<"value", "gas", "gasPrice", "maxFeePerGas", "maxPriorityFeePerGas", "nonce", "chainId">>

\* The body of the loop for one value: what is stored back, or the error.
\* bool is a subclass of int, so isinstance(True, int) holds.
SanitizeValue(val) ==
    IF val.t = "int" THEN [ok |-> TRUE, v |-> StrV(PyHex(val.v)), exc |-> NoExc]
    ELSE IF val.t = "bool"
    THEN [ok |-> TRUE, v |-> StrV(PyHex(IF val.v THEN 1 ELSE 0)), exc |-> NoExc]
    ELSE IF val.t = "str" /\ ~StartsWith0x(val.v) /\ IsDigit(val.v)
    THEN LET n == PyInt(val.v)
         IN  IF n.ok THEN [ok |-> TRUE, v |-> StrV(PyHex(n.v)), exc |-> NoExc]
             ELSE [ok |-> FALSE, v |-> val, exc |-> n.exc]
    ELSE [ok |-> TRUE, v |-> val, exc |-> NoExc]

\* The for loop from field number j on, writing into the dict at reference r.
RECURSIVE SanitizeLoop(_, _, _, _)
SanitizeLoop(h, r, fields, j) ==
    IF j > Len(fields) THEN [heap |-> h, exc |-> NoExc]
    ELSE IF ~HasKey(h[r], fields[j]) THEN SanitizeLoop(h, r, fields, j + 1)
    ELSE LET res == SanitizeValue(Get(h[r], fields[j]))
         IN  IF res.ok
             THEN SanitizeLoop([h EXCEPT ![r] = Set(h[r], fields[j], res.v)], r, fields, j + 1)
             ELSE [heap |-> h, exc |-> res.exc]

\* _sanitize_transaction(transaction_dict): the heap afterwards, the reference
\* returned (0 when it raised) and the exception, if any.
SanitizeTransaction(h, r) ==
    LET c == DictCopy(h, r)
        res == SanitizeLoop(c.heap, c.ref, FieldsToHex, 1)
    IN  [heap |-> res.heap,
         ref |-> IF res.exc = NoExc THEN c.ref ELSE 0,
         exc |-> res.exc]

----------------------------------------------------------------------------
(* json.dumps, as the wrappers use it (default arguments) *)

\* One character inside a JSON string: ensure_ascii escapes non-ASCII.
JsonChar(c) == IF c = Sup2 THEN "\\u00b2" ELSE c

\* json.dumps(val): the text as a sequence of fragments, or TypeError for a
\* value of a type the encoder does not know (bytes).  A dict value is
\* written in insertion order.
RECURSIVE JsonDumps(_)
RECURSIVE JsonEntries(_, _)
JsonEntries(d, j) ==
    IF j > Len(d) THEN [ok |-> TRUE, text |-> <<>>]
    ELSE LET val == JsonDumps(d[j].v)
             rest == JsonEntries(d, j + 1)
         IN  IF ~val.ok THEN val
             ELSE IF ~rest.ok THEN rest
             ELSE [ok |-> TRUE,
                   text |-> (IF j > 1 THEN <<", ">> ELSE <<>>)
                            \o <<"\"", d[j].k, "\"", ": ">> \o val.text \o rest.text]
JsonDumps(val) ==
    IF val.t = "int" THEN [ok |-> TRUE, text |-> PyStr(val.v)]
    ELSE IF val.t = "bool" THEN [ok |-> TRUE, text |-> IF val.v THEN <<"true">> ELSE <<"false">>]
    ELSE IF val.t = "none" THEN [ok |-> TRUE, text |-> <<"null">>]
    ELSE IF val.t = "str"
    THEN [ok |-> TRUE,
          text |-> <<"\"">> \o [i \in 1..Len(val.v) |-> JsonChar(val.v[i])] \o <<"\"">>]
    ELSE IF val.t = "dict"
    THEN LET body == JsonEntries(val.v, 1)
         IN  IF body.ok THEN [ok |-> TRUE, text |-> <<"{">> \o body.text \o <<"}">>]
             ELSE body
    ELSE [ok |-> FALSE, text |-> <<>>]

DictV(d) == [t |-> "dict", v |-> d]
JsonTypeError == Exc("TypeError", "not JSON serializable")

----------------------------------------------------------------------------
(* The signing backend (_ferrite, native code): its responses are inputs.  *)

\* The keyword arguments of SignedMessage(...) / SignedTransaction(...) that
\* read the backend's dict, in evaluation order.
MessageKeys == <<"r", "s", "v", "signature">>
TransactionKeys == <<"rawTransaction", "hash", "r", "s", "v">>

Range(f) == {f[i] : i \in DOMAIN f}
Ramp(n, base) == [i \in 1..n |-> base + i]

\* A complete response whose r and s are rl and sl bytes long.
FullResponse(rl, sl, v) ==
    [k \in {"rawTransaction", "hash", "r", "s", "v", "signature"} |->
        CASE k = "r" -> BytesV(Ramp(rl, 0))
          [] k = "s" -> BytesV(Ramp(sl, 16))
          [] k = "v" -> IntV(v)
          [] k = "signature" -> BytesV(Ramp(rl, 0) \o Ramp(sl, 16) \o <<v>>)
          [] k = "rawTransaction" -> BytesV(<<248, v>>)
          [] k = "hash" -> BytesV(Ramp(FieldLen, 32))]

Restrict(f, S) == [k \in S |-> f[k]]

FieldLengths ==
    {<<FieldLen, FieldLen>>, <<FieldLen - 1, FieldLen>>, <<FieldLen + 1, FieldLen>>,
     <<FieldLen, FieldLen - 1>>, <<FieldLen, FieldLen + 1>>}

\* No key missing, one key missing, every key missing.
MissingSets(keys) == {{}, Range(keys)} \cup {{k} : k \in Range(keys)}

BackendError(fn) == Exc("BackendError", fn)
BackendRaises(fn) == [exc |-> BackendError(fn), fields |-> <<>>]
NotCalled == [exc |-> Exc("not called", ""), fields |-> <<>>]

\* What the backend may answer: an error, or a dict with some of the keys.
BackendResponses(fn, keys) ==
    {BackendRaises(fn)} \cup
    {[exc |-> NoExc, fields |-> Restrict(FullResponse(l[1], l[2], v), Range(keys) \ miss)] :
        l \in FieldLengths, v \in {27, 28}, miss \in MissingSets(keys)}

\* The backend refuses a key that is not KeyLen bytes long.
BackendOutcomes(fn, keys, key) ==
    IF Len(key.v) # KeyLen THEN {BackendRaises(fn)} ELSE BackendResponses(fn, keys)

----------------------------------------------------------------------------
(* The signing wrappers: account.py lines 20-181 *)

NoResult == [type |-> "none"]
Raised(h, calls, e) ==
    [heap |-> h, calls |-> calls, status |-> "raised", exc |-> e, result |-> NoResult]
Returned(h, calls, res) ==
    [heap |-> h, calls |-> calls, status |-> "returned", exc |-> NoExc, result |-> res]

BackendCall(fn, payload, key) == [fn |-> fn, payload |-> payload, key |-> key]

\* The first of `keys` that the backend's dict lacks, "" when none is missing.
FirstMissing(keys, fields) ==
    IF \A j \in 1..Len(keys) : keys[j] \in DOMAIN fields THEN ""
    ELSE keys[CHOOSE j \in 1..Len(keys) :
                 /\ keys[j] \notin DOMAIN fields
                 /\ \A m \in 1..(j - 1) : keys[m] \in DOMAIN fields]

\* dict.get(key, 0)-style decoding: a missing field becomes zero.
ReconstructMessageDefaulting(message_hash, fields) ==
    LET get(k) == IF k \in DOMAIN fields THEN fields[k]
                  ELSE IF k = "v" THEN IntV(0) ELSE BytesV(<<>>)
    IN  [exc |-> NoExc,
         result |-> [type |-> "SignedMessage", message_hash |-> message_hash,
                     r |-> IntFromBytes(get("r").v), s |-> IntFromBytes(get("s").v),
                     v |-> get("v"), signature |-> HexBytes(get("signature").v)]]

\* A reconstruction that mixes process state into the result: the recovery
\* value is offset by the number of enable calls made so far.
ReconstructMessageCounting(message_hash, fields) ==
    LET miss == FirstMissing(MessageKeys, fields)
    IN  IF miss # "" THEN [exc |-> Exc("KeyError", miss), result |-> NoResult]
        ELSE [exc |-> NoExc,
              result |-> [type |-> "SignedMessage", message_hash |-> message_hash,
                          r |-> IntFromBytes(fields["r"].v),
                          s |-> IntFromBytes(fields["s"].v),
                          v |-> IntV(fields["v"].v + invoked - 1),
                          signature |-> HexBytes(fields["signature"].v)]]

\* SignedMessage(message_hash=..., r=int.from_bytes(d["r"], "big"), ...):
\* d[k] raises KeyError(k) for a missing key; nothing checks a length.
ReconstructMessage(message_hash, fields) ==
    LET miss == FirstMissing(MessageKeys, fields)
    IN  IF miss # "" THEN [exc |-> Exc("KeyError", miss), result |-> NoResult]
        ELSE [exc |-> NoExc,
              result |-> [type |-> "SignedMessage", message_hash |-> message_hash,
                          r |-> IntFromBytes(fields["r"].v),
                          s |-> IntFromBytes(fields["s"].v),
                          v |-> fields["v"],
                          signature |-> HexBytes(fields["signature"].v)]]

\* SignedTransaction(raw_transaction=HexBytes(d["rawTransaction"]), ...)
ReconstructTransaction(fields) ==
    LET miss == FirstMissing(TransactionKeys, fields)
    IN  IF miss # "" THEN [exc |-> Exc("KeyError", miss), result |-> NoResult]
        ELSE [exc |-> NoExc,
              result |-> [type |-> "SignedTransaction",
                          raw_transaction |-> HexBytes(fields["rawTransaction"].v),
                          hash |-> HexBytes(fields["hash"].v),
                          r |-> IntFromBytes(fields["r"].v),
                          s |-> IntFromBytes(fields["s"].v),
                          v |-> fields["v"]]]

\* A key decoder that keeps the "0x" prefix in the hex string.
DecodeKeyKeepingPrefix(private_key) ==
    IF private_key.t = "bytes" THEN [ok |-> TRUE, key |-> private_key]
    ELSE LET b == FromHex(private_key.v)
         IN  [ok |-> b.ok, key |-> BytesV(b.v)]

\* A key decoder that also checks the decoded length.
DecodeKeyCheckingLength(private_key) ==
    LET b == IF private_key.t = "bytes" THEN [ok |-> TRUE, v |-> private_key.v]
             ELSE FromHex(IF StartsWith0x(private_key.v)
                          THEN SubSeq(private_key.v, 3, Len(private_key.v))
                          ELSE private_key.v)
    IN  [ok |-> b.ok /\ Len(b.v) = KeyLen, key |-> BytesV(b.v)]

\* The key block of the three Account wrappers (lines 40-45, 84-89, 159-164):
\* bytes pass as they are, a str loses a leading "0x" and goes through
\* bytes.fromhex.  Not ok means bytes.fromhex raised ValueError.
DecodeKey(private_key) ==
    IF private_key.t = "bytes" THEN [ok |-> TRUE, key |-> private_key]
    ELSE LET hex == IF StartsWith0x(private_key.v)
                    THEN SubSeq(private_key.v, 3, Len(private_key.v))
                    ELSE private_key.v
             b == FromHex(hex)
         IN  [ok |-> b.ok, key |-> BytesV(b.v)]

FromHexError == Exc("ValueError", "fromhex")

\* An except clause that raises a generic error in place of the backend's.
FinishMessageWrapping(h, call, message_hash, resp) ==
    IF resp.exc # NoExc THEN Raised(h, <<call>>, Exc("RuntimeError", "signing failed"))
    ELSE LET rec == ReconstructMessage(message_hash, resp.fields)
         IN  IF rec.exc # NoExc THEN Raised(h, <<call>>, rec.exc)
             ELSE Returned(h, <<call>>, rec.result)

\* From the backend call to the SignedMessage (hash and typed-data wrappers).
FinishMessage(h, call, message_hash, resp) ==
    IF resp.exc # NoExc THEN Raised(h, <<call>>, resp.exc)
    ELSE LET rec == ReconstructMessage(message_hash, resp.fields)
         IN  IF rec.exc # NoExc THEN Raised(h, <<call>>, rec.exc)
             ELSE Returned(h, <<call>>, rec.result)

\* From the backend call to the SignedTransaction (transaction wrappers).
FinishTransaction(h, call, resp) ==
    IF resp.exc # NoExc THEN Raised(h, <<call>>, resp.exc)
    ELSE LET rec == ReconstructTransaction(resp.fields)
         IN  IF rec.exc # NoExc THEN Raised(h, <<call>>, rec.exc)
             ELSE Returned(h, <<call>>, rec.result)

\* _sign_hash_wrapper(self, message_hash), lines 20-34
SignHashWrapper(h, self_key, message_hash, resp) ==
    FinishMessage(h, BackendCall("sign_hash", message_hash, self_key),
                  HexBytes(message_hash.v), resp)

\* _account_sign_hash_wrapper(message_hash, private_key), lines 37-58
AccountSignHashWrapper(h, message_hash, private_key, resp) ==
    LET k == DecodeKey(private_key)
    IN  IF ~k.ok THEN Raised(h, <<>>, FromHexError)
        ELSE FinishMessage(h, BackendCall("sign_hash", message_hash, k.key),
                           HexBytes(message_hash.v), resp)

\* _sign_typed_data_wrapper(self, full_message), lines 61-76
SignTypedDataWrapper(h, self_key, full_message, resp) ==
    LET json_payload == JsonDumps(full_message)
    IN  IF ~json_payload.ok THEN Raised(h, <<>>, JsonTypeError)
        ELSE FinishMessage(h, BackendCall("sign_typed_data", json_payload.text, self_key),
                           HexBytes(<<>>), resp)

\* _account_sign_typed_data_wrapper(private_key, full_message), lines 79-103
AccountSignTypedDataWrapper(h, private_key, full_message, resp) ==
    LET k == DecodeKey(private_key)
        json_payload == JsonDumps(full_message)
    IN  IF ~k.ok THEN Raised(h, <<>>, FromHexError)
        ELSE IF ~json_payload.ok THEN Raised(h, <<>>, JsonTypeError)
        ELSE FinishMessage(h, BackendCall("sign_typed_data", json_payload.text, k.key),
                           HexBytes(<<>>), resp)

\* A transaction path that serialises the caller's dict as given, calls the
\* backend and only then runs the sanitizer.
SanitizeAndSignSanitizingLate(h, tx, key, resp) ==
    LET json_payload == JsonDumps(DictV(h[tx]))
        call == BackendCall("sign_transaction", json_payload.text, key)
        san == SanitizeTransaction(h, tx)
    IN  IF ~json_payload.ok THEN Raised(h, <<>>, JsonTypeError)
        ELSE IF resp.exc # NoExc THEN Raised(h, <<call>>, resp.exc)
        ELSE IF san.exc # NoExc THEN Raised(san.heap, <<call>>, san.exc)
        ELSE FinishTransaction(san.heap, call, resp)

\* Lines 136-148 and 166-178: sanitize, serialise, call the backend, rebuild.
SanitizeAndSign(h, tx, key, resp) ==
    LET san == SanitizeTransaction(h, tx)
    IN  IF san.exc # NoExc THEN Raised(san.heap, <<>>, san.exc)
        ELSE LET json_payload == JsonDumps(DictV(san.heap[san.ref]))
             IN  IF ~json_payload.ok THEN Raised(san.heap, <<>>, JsonTypeError)
                 ELSE FinishTransaction(san.heap,
                          BackendCall("sign_transaction", json_payload.text, key), resp)

\* _sign_transaction_wrapper(self, transaction_dict), lines 133-151
SignTransactionWrapper(h, self_key, tx, resp) == SanitizeAndSign(h, tx, self_key, resp)

\* _account_sign_transaction_wrapper(transaction_dict, private_key), lines 154-181
AccountSignTransactionWrapper(h, tx, private_key, resp) ==
    LET k == DecodeKey(private_key)
    IN  IF ~k.ok THEN Raised(h, <<>>, FromHexError)
        ELSE SanitizeAndSign(h, tx, k.key, resp)

----------------------------------------------------------------------------
(* Concurrent enable calls: each thread runs the six setattr calls of      *)
(* patch_eth_account in order; one setattr is one atomic step.             *)

\* The host of the concurrent runs: every attribute exists and accepts
\* setattr, except that LocalAccount may have no _sign_hash of its own.
InitThreads ==
    /\ InitHost
    /\ \A i \in Slots : i # 1 => bound[i] = Original
    /\ rejects = {}

\* Thread t executes its next setattr (account.py lines 189-196); the code
\* takes no lock and tests no flag before it.
ThreadSetattr(t) ==
    /\ pc[t] < Len(Bindings)
    /\ LET i == pc[t] + 1
       IN  /\ bound' = [bound EXCEPT ![i] = Replacement(i, bound[i])]
           /\ writes' = [writes EXCEPT ![i] = Append(@, t)]
    /\ pc' = [pc EXCEPT ![t] = @ + 1]
    /\ UNCHANGED <<rejects, prior, imported, invoked, outcome, heap, last, answers, signed>>

NextThreads == \E t \in 1..NThreads : ThreadSetattr(t)

SpecThreads == InitThreads /\ [][NextThreads]_vars

----------------------------------------------------------------------------
(* Signing calls through the patched call-sites, one call at a time *)

\* Key arguments: every str over KeyChars up to the length of a prefixed
\* valid key, and every byte string up to one byte longer than a valid key.
KeyChars == {"0", "1", "x", " "}
PlainKeyChars == {"0", "1", "x"}
KeyByteValues == {0, 1, 16, 17}
KeyInputsOver(chars) ==
    {StrV(k) : k \in SeqsUpTo(chars, 0, 2 * KeyLen + 2)}
        \cup {BytesV(b) : b \in SeqsUpTo(KeyByteValues, 0, KeyLen + 1)}
KeyInputs == KeyInputsOver(KeyChars)
PlainKeyInputs == KeyInputsOver(PlainKeyChars)

\* LocalAccount.key is always a valid key.
SelfKeys == {BytesV(b) : b \in [1..KeyLen -> KeyByteValues]}

Hashes == {BytesV(Ramp(FieldLen, 0)), BytesV(Ramp(FieldLen, 64))}

\* Typed-data messages; the last one holds a value json.dumps rejects.
TypedMessage(contents) ==
    DictV(<<Entry("primaryType", StrV(<<"M">>)),
            Entry("message", DictV(<<Entry("contents", contents)>>))>>)
TypedMessages ==
    {TypedMessage(c) : c \in {StrV(<<"h", "i">>), IntV(1), BytesV(<<1>>)}}

\* Transaction field values.
TxChars == {"0", "1", "x", Sup2}
TxInts == {-1, 0, 9, 100, 256}
TxValues ==
    {IntV(n) : n \in TxInts} \cup {StrV(x) : x \in SeqsUpTo(TxChars, 0, MaxStrLen)}
        \cup {BoolV(TRUE), NoneV, BytesV(<<222, 173>>)}
SmallValues ==
    {IntV(100), StrV(<<"1", "0", "0">>), StrV(<<"0", "x", "1">>), BytesV(<<222, 173>>),
     StrV(<<Sup2>>)}

\* Dicts handed to _sanitize_transaction directly: one entry with any value
\* under an allow-listed or another key, alone or beside a second entry.
SanitizeInputs ==
    {<<>>}
    \cup {<<Entry(k, v)>> : k \in {"value", "chainId", "data"}, v \in TxValues}
    \cup UNION {{<<Entry(k, v), Entry(k2, v2)>>, <<Entry(k2, v2), Entry(k, v)>>} :
                    k \in {"value", "chainId", "data"}, v \in TxValues,
                    k2 \in {"gas", "to"}, v2 \in SmallValues}

\* Dicts handed to the transaction wrappers.
TxSample ==
    {<<>>} \cup {<<Entry("value", v)>> : v \in SmallValues}
           \cup {<<Entry("data", w), Entry("value", v)>> : v \in SmallValues, w \in SmallValues}

\* The record of a call: its arguments, the heap before it, the backend
\* calls it made, the response it got and how it ended.
CallRecord(i, key, payload, before, resp, out) ==
    [op |-> Bindings[i].fn, key |-> key, payload |-> payload, before |-> before,
     calls |-> out.calls, resp |-> IF out.calls = <<>> THEN NotCalled ELSE resp,
     status |-> out.status, exc |-> out.exc, result |-> out.result]

\* The responses a call can meet: those of the backend for the key it is
\* handed, when the wrapper (run against a failing backend) reaches it.
RespChoices(probe, fn, keys) ==
    IF probe.calls = <<>> THEN {NotCalled}
    ELSE BackendOutcomes(fn, keys, probe.calls[1].key)

Dispatches(i) == last = Idle /\ bound[i] = <<Bindings[i].fn>>

Unchanged ==
    UNCHANGED <<bound, rejects, prior, imported, invoked, outcome, pc, writes, answers, signed>>

\* account.<LocalAccount>._sign_hash(message_hash)
SignHash ==
    /\ Dispatches(1)
    /\ \E self_key \in SelfKeys, mh \in Hashes :
         \E resp \in BackendOutcomes("sign_hash", MessageKeys, self_key) :
           LET out == SignHashWrapper(<<>>, self_key, mh, resp)
           IN  /\ last' = CallRecord(1, self_key, mh, <<>>, resp, out)
               /\ heap' = out.heap
    /\ Unchanged

\* Account._sign_hash(message_hash, private_key)
AccountSignHash ==
    /\ Dispatches(2)
    /\ \E key \in KeyInputs, mh \in Hashes :
         \E resp \in RespChoices(AccountSignHashWrapper(<<>>, mh, key, BackendRaises("sign_hash")),
                                 "sign_hash", MessageKeys) :
           LET out == AccountSignHashWrapper(<<>>, mh, key, resp)
           IN  /\ last' = CallRecord(2, key, mh, <<>>, resp, out)
               /\ heap' = out.heap
    /\ Unchanged

\* account.<LocalAccount>.sign_typed_data(full_message)
SignTypedData ==
    /\ Dispatches(3)
    /\ \E self_key \in SelfKeys, msg \in TypedMessages :
         \E resp \in RespChoices(SignTypedDataWrapper(<<>>, self_key, msg,
                                                      BackendRaises("sign_typed_data")),
                                 "sign_typed_data", MessageKeys) :
           LET out == SignTypedDataWrapper(<<>>, self_key, msg, resp)
           IN  /\ last' = CallRecord(3, self_key, msg, <<>>, resp, out)
               /\ heap' = out.heap
    /\ Unchanged

\* Account.sign_typed_data(private_key, full_message)
AccountSignTypedData ==
    /\ Dispatches(4)
    /\ \E key \in PlainKeyInputs, msg \in TypedMessages :
         \E resp \in RespChoices(AccountSignTypedDataWrapper(<<>>, key, msg,
                                                             BackendRaises("sign_typed_data")),
                                 "sign_typed_data", MessageKeys) :
           LET out == AccountSignTypedDataWrapper(<<>>, key, msg, resp)
           IN  /\ last' = CallRecord(4, key, msg, <<>>, resp, out)
               /\ heap' = out.heap
    /\ Unchanged

\* account.<LocalAccount>.sign_transaction(transaction_dict): the caller's
\* dict is object 1 of the heap.
SignTransaction ==
    /\ Dispatches(5)
    /\ \E self_key \in SelfKeys, d \in TxSample :
         \E resp \in RespChoices(SignTransactionWrapper(<<d>>, self_key, 1,
                                                        BackendRaises("sign_transaction")),
                                 "sign_transaction", TransactionKeys) :
           LET out == SignTransactionWrapper(<<d>>, self_key, 1, resp)
           IN  /\ last' = CallRecord(5, self_key, 1, <<d>>, resp, out)
               /\ heap' = out.heap
    /\ Unchanged

\* Account.sign_transaction(transaction_dict, private_key)
AccountSignTransaction ==
    /\ Dispatches(6)
    /\ \E key \in PlainKeyInputs, d \in TxSample :
         \E resp \in RespChoices(AccountSignTransactionWrapper(<<d>>, 1, key,
                                                               BackendRaises("sign_transaction")),
                                 "sign_transaction", TransactionKeys) :
           LET out == AccountSignTransactionWrapper(<<d>>, 1, key, resp)
           IN  /\ last' = CallRecord(6, key, 1, <<d>>, resp, out)
               /\ heap' = out.heap
    /\ Unchanged

\* A direct call of _sanitize_transaction(transaction_dict).
CallSanitize ==
    /\ last = Idle
    /\ \E d \in SanitizeInputs :
         LET out == SanitizeTransaction(<<d>>, 1)
         IN  /\ last' = [op |-> "_sanitize_transaction", key |-> NoneV, payload |-> 1,
                         before |-> <<d>>, calls |-> <<>>, resp |-> NotCalled,
                         status |-> IF out.exc = NoExc THEN "returned" ELSE "raised",
                         exc |-> out.exc,
                         result |-> [type |-> "dict", ref |-> out.ref]]
             /\ heap' = out.heap
    /\ Unchanged

\* The call has returned or raised; its objects are dropped.
Return ==
    /\ last # Idle
    /\ last' = Idle
    /\ heap' = <<>>
    /\ Unchanged

\* After `import ferrite` on a host whose six attributes exist and accept
\* setattr.
InitSign ==
    /\ bound = PatchEthAccountCall([i \in Slots |-> Original], {}).bound
    /\ prior = [i \in Slots |-> Original]
    /\ rejects = {}
    /\ imported = TRUE
    /\ invoked = 1
    /\ outcome = PatchEthAccountCall([i \in Slots |-> Original], {}).outcome
    /\ pc = [t \in 1..NThreads |-> 0]
    /\ writes = [i \in Slots |-> <<>>]
    /\ heap = <<>>
    /\ last = Idle
    /\ answers = {}
    /\ signed = {}

NextSign ==
    \/ SignHash
    \/ AccountSignHash
    \/ SignTypedData
    \/ AccountSignTypedData
    \/ SignTransaction
    \/ AccountSignTransaction
    \/ CallSanitize
    \/ Return

SpecSign == InitSign /\ [][NextSign]_vars

----------------------------------------------------------------------------
(* Properties of the patch registry *)

Installed(b) == \A i \in Slots : b[i] = <<Bindings[i].fn>>

\* C1: after any invocation of the enable entry point that returned, each
\* of the six call-sites holds exactly one replacement, the adapter's own
\* wrapper with nothing wrapped underneath; an invocation made when the six
\* were already installed leaves the bindings exactly as they were.
C1_IdempotentInstall ==
    outcome.status = "returned" =>
        /\ \A i \in Slots : Len(bound[i]) = 1 /\ bound[i][1] = Bindings[i].fn
        /\ (Installed(outcome.before) => bound = outcome.before)

C1_Witness ==
    /\ invoked >= 2
    /\ outcome.status = "returned"
    /\ Installed(outcome.before)
    /\ \A i \in Slots : prior[i] = Original

\* C2 as claimed: a check-and-set guard lets no call-site be installed twice:
\* every call-site is written by at most one thread.
C2_InstalledAtMostOnce == \A i \in Slots : Len(writes[i]) <= 1

\* C2 as amended: without any guard, each thread writes each call-site once,
\* in order; every write stores the same replacement, so a call-site is at
\* all times bound to its earlier handler or to the unwrapped replacement,
\* and once every thread is done all six are bound to the replacement.
C2_ConcurrentInstallConverges ==
    /\ \A i \in Slots :
         /\ writes[i] = <<>> => bound[i] = prior[i]
         /\ writes[i] # <<>> => bound[i] = <<Bindings[i].fn>>
         /\ \A t \in 1..NThreads :
              Cardinality({j \in 1..Len(writes[i]) : writes[i][j] = t})
                  = (IF pc[t] >= i THEN 1 ELSE 0)
    /\ (\A t \in 1..NThreads : pc[t] = Len(Bindings)) =>
         \A i \in Slots : bound[i] = <<Bindings[i].fn>> /\ Len(writes[i]) = NThreads

C2_Witness ==
    /\ \A t \in 1..NThreads : pc[t] = Len(Bindings)
    /\ \E i \in Slots : Len(writes[i]) >= 2 /\ writes[i][1] # writes[i][2]
    /\ \E i \in Slots : writes[i][1] = 1
    /\ \E i \in Slots : writes[i][1] = 2

\* C3 as claimed: an install that fails part-way never leaves some call-sites
\* rebound and others not without a per-binding report of that state.
C3_NoUnreportedPartialState ==
    ~ /\ outcome.status = "raised"
      /\ \E i \in Slots : bound[i] # outcome.before[i]
      /\ \E i \in Slots : bound[i] # <<Bindings[i].fn>>
      /\ outcome.ret \notin {"per-binding report"}

\* C3 as amended: when setattr number k raises, the invocation raises at
\* once and returns no value; the call-sites before k are rebound, call-site
\* k and those after it keep the handlers they had.
C3_FailureStopsAtFirstRejectedBinding ==
    outcome.status = "raised" =>
        /\ outcome.failedAt \in rejects
        /\ outcome.ret = "no value"
        /\ \A i \in Slots :
             /\ i < outcome.failedAt => i \notin rejects /\ bound[i] = <<Bindings[i].fn>>
             /\ i >= outcome.failedAt => bound[i] = outcome.before[i]

C3_Witness ==
    /\ outcome.status = "raised"
    /\ outcome.failedAt = 3
    /\ bound[1] # outcome.before[1]
    /\ bound[4] = Original

\* C4 as claimed: the handler bound before the first install is captured, so
\* that restore can re-bind it: it is still held after the call-site has
\* been rebound.
C4_OriginalCapturedForRestore ==
    \A i \in Slots : (prior[i] = Original /\ bound[i] # prior[i]) => prior[i] \in Retained(i)

\* C4 as amended: an install that returned holds, for each call-site, the
\* replacement and nothing else; the handler bound before is not captured
\* (and there is no restore operation to re-bind it).
C4_OriginalNotCaptured ==
    outcome.status = "returned" =>
        \A i \in Slots : Retained(i) = {<<Bindings[i].fn>>} /\ Original \notin Retained(i)

C4_Witness ==
    /\ outcome.status = "returned"
    /\ invoked >= 2
    /\ prior[2] = Original
    /\ bound[2] # prior[2]

\* C5 as claimed: the value returned tells a fresh installation ("fresh", when
\* the six were not all bound before) from a repeated one.
C5_ReportsFreshOrAlreadyInstalled ==
    outcome.status = "returned" =>
        outcome.ret = (IF Installed(outcome.before) THEN "already installed" ELSE "fresh")

\* C5 as amended: every invocation that returns returns None, the first as
\* well as a later one, and an invocation made when the six call-sites are
\* already installed does not raise.
C5_ReturnsNoneAndNeverRaisesWhenInstalled ==
    /\ outcome.status = "returned" => outcome.ret = "None"
    /\ (outcome.status # "none" /\ Installed(outcome.before)) => outcome.status = "returned"

C5_Witness ==
    /\ invoked >= 2
    /\ outcome.status = "returned"
    /\ outcome.ret = "None"
    /\ Installed(outcome.before)
    /\ prior[1] = NoAttr

----------------------------------------------------------------------------
(* Properties of the sanitizer and of the signing wrappers *)

IsCall == last.op # "idle"
TransactionOps ==
    {"_sanitize_transaction", "_sign_transaction_wrapper", "_account_sign_transaction_wrapper"}
AccountOps ==
    {"_account_sign_hash_wrapper", "_account_sign_typed_data_wrapper",
     "_account_sign_transaction_wrapper"}
MessageOps ==
    {"_sign_hash_wrapper", "_account_sign_hash_wrapper", "_sign_typed_data_wrapper",
     "_account_sign_typed_data_wrapper"}

\* C6: whatever dict is passed to _sanitize_transaction or to a transaction
\* signing wrapper, and whether the call returns or raises, the caller's dict
\* (object 1) holds the same entries afterwards; the sanitizer returns
\* another object than the one it was given.
C6_CallerMappingUnchanged ==
    (IsCall /\ last.op \in TransactionOps) =>
        /\ heap[1] = last.before[1]
        /\ (last.op = "_sanitize_transaction" /\ last.status = "returned") =>
               last.result.ref # last.payload

C6_Witness ==
    /\ IsCall
    /\ last.op = "_sign_transaction_wrapper"
    /\ last.status = "returned"
    /\ Len(heap) = 2
    /\ heap[2] # heap[1]

C6_WitnessRaises ==
    /\ IsCall
    /\ last.op = "_sanitize_transaction"
    /\ last.status = "raised"
    /\ Len(heap) = 2
    /\ heap[2] # heap[1]

\* The number a "0x..." string denotes, and whether it is the canonical
\* lower-case form without leading zeros.
RECURSIVE HexNumber(_)
HexNumber(ds) ==
    IF ds = <<>> THEN 0 ELSE 16 * HexNumber(SubSeq(ds, 1, Len(ds) - 1)) + HexValue(ds[Len(ds)])
IsHexOf(val, n) ==
    /\ val.t = "str"
    /\ StartsWith0x(val.v)
    /\ Len(val.v) >= 3
    /\ \A i \in 3..Len(val.v) : val.v[i] \in Range(HexDigits)
    /\ (Len(val.v) > 3 => val.v[3] # "0")
    /\ HexNumber(SubSeq(val.v, 3, Len(val.v))) = n
IsDecimalString(val) ==
    val.t = "str" /\ Len(val.v) > 0 /\ \A i \in 1..Len(val.v) : val.v[i] \in DecimalChars
AllowListed(k) ==
    k \in {"value", "gas", "gasPrice", "maxFeePerGas", "maxPriorityFeePerGas", "nonce", "chainId"}

C7_WitnessNegative ==
    /\ IsCall
    /\ last.op = "_sanitize_transaction"
    /\ last.before[1] = <<Entry("value", IntV(-1))>>
    /\ heap[last.result.ref] = <<Entry("value", StrV(<<"-", "0", "x", "1">>))>>

\* The bytes a string of hex digit pairs denotes.
PairsToBytes(hx) ==
    [i \in 1..(Len(hx) \div 2) |-> 16 * HexValue(hx[2 * i - 1]) + HexValue(hx[2 * i])]
IsHexString(hx) == \A i \in 1..Len(hx) : hx[i] \in HexChars
StripPrefix(k) == IF StartsWith0x(k) THEN SubSeq(k, 3, Len(k)) ELSE k

\* A valid key H of 2 * KeyLen hex digits, given as H, as "0x" + H or as the
\* KeyLen raw bytes H encodes; KeyBytes is the byte string it stands for.
IsValidKeyForm(key) ==
    IF key.t = "bytes" THEN Len(key.v) = KeyLen
    ELSE Len(StripPrefix(key.v)) = 2 * KeyLen /\ IsHexString(StripPrefix(key.v))
KeyBytes(key) == IF key.t = "bytes" THEN key.v ELSE PairsToBytes(StripPrefix(key.v))

\* The call got past serialisation and sanitizing of its payload.
PayloadPrepared ==
    ~(last.status = "raised" /\ last.calls = <<>> /\ last.exc # FromHexError)

NonSpace(hx) == {i \in 1..Len(hx) : hx[i] \notin WhitespaceChars}
FromHexAccepts(hx) ==
    /\ \A i \in NonSpace(hx) : hx[i] \in HexChars
    /\ Cardinality(NonSpace(hx)) % 2 = 0
    /\ \A i \in NonSpace(hx) :
         Cardinality({j \in NonSpace(hx) : j < i}) % 2 = 0 => (i + 1) \in NonSpace(hx)
RECURSIVE WithoutSpaces(_)
WithoutSpaces(hx) ==
    IF hx = <<>> THEN <<>>
    ELSE IF Head(hx) \in WhitespaceChars THEN WithoutSpaces(Tail(hx))
    ELSE <<Head(hx)>> \o WithoutSpaces(Tail(hx))

\* An invalid key: a hex string with a character that is no hex digit, or a
\* key whose decoded length is not KeyLen bytes.
IsInvalidKey(key) ==
    IF key.t = "bytes" THEN Len(key.v) # KeyLen
    ELSE ~IsHexString(StripPrefix(key.v)) \/ Len(StripPrefix(key.v)) # 2 * KeyLen

\* C9 as claimed: a free-function wrapper given an invalid key fails with the
\* invalid-key error (ValueError in this code base), without the backend
\* being invoked and without a result.
C9_InvalidKeyNeverReachesBackend ==
    (IsCall /\ last.op \in AccountOps /\ IsInvalidKey(last.key)) =>
        /\ last.status = "raised"
        /\ last.exc.type \in {"InvalidKeyError", "ValueError"}
        /\ last.calls = <<>>
        /\ last.result = NoResult

\* C9 as amended: a str key that bytes.fromhex rejects once a leading "0x" is
\* removed fails with ValueError, the backend is not invoked and no result is
\* returned.  Nothing checks the decoded length, and whitespace between digit
\* pairs is skipped: every other key, valid or of a wrong decoded length, is
\* handed to the backend as decoded once the payload is prepared.
C9_OnlyUndecodableKeysAreRejected ==
    (IsCall /\ last.op \in AccountOps) =>
        IF last.key.t = "str" /\ ~FromHexAccepts(StripPrefix(last.key.v))
        THEN /\ last.status = "raised"
             /\ last.exc = FromHexError
             /\ last.calls = <<>>
             /\ last.result = NoResult
        ELSE PayloadPrepared =>
             /\ Len(last.calls) = 1
             /\ last.calls[1].key =
                    (IF last.key.t = "bytes" THEN last.key
                     ELSE BytesV(PairsToBytes(WithoutSpaces(StripPrefix(last.key.v)))))

C9_Witness ==
    /\ IsCall
    /\ last.op = "_account_sign_hash_wrapper"
    /\ last.key.t = "str"
    /\ IsHexString(last.key.v)
    /\ Len(last.calls) = 1
    /\ Len(last.calls[1].key.v) = KeyLen + 1

C9_WitnessRejected ==
    /\ IsCall
    /\ last.op = "_account_sign_typed_data_wrapper"
    /\ last.key.t = "str"
    /\ last.exc = FromHexError
    /\ last.calls = <<>>

\* The big-endian number of a byte string.
RECURSIVE Pow256(_)
Pow256(n) == IF n = 0 THEN 1 ELSE 256 * Pow256(n - 1)
RECURSIVE SumOver(_, _)
SumOver(b, i) == IF i > Len(b) THEN 0 ELSE b[i] * Pow256(Len(b) - i) + SumOver(b, i + 1)
BigEndian(b) == SumOver(b, 1)

ExpectedKeys(op) == IF op \in MessageOps THEN MessageKeys ELSE TransactionKeys
Answered == IsCall /\ last.calls # <<>> /\ last.resp.exc = NoExc
LacksKey == \E k \in Range(ExpectedKeys(last.op)) : k \notin DOMAIN last.resp.fields
WrongLength ==
    \E k \in {"r", "s"} : k \in DOMAIN last.resp.fields /\ Len(last.resp.fields[k].v) # FieldLen

\* C10 as claimed: a response that lacks an expected key, or whose r or s has
\* the wrong length, makes the call raise the reconstruction error (KeyError
\* in this code base) and the caller receives no result object.
C10_MalformedResponseRaises ==
    (Answered /\ (LacksKey \/ WrongLength)) =>
        /\ last.status = "raised"
        /\ last.exc.type \in {"ReconstructionError", "KeyError"}
        /\ last.result = NoResult

\* C10 as amended: a response that lacks an expected key makes the call raise
\* KeyError for the first key missing, in the order the result is built, with
\* no result and no default in place of the field; the length of r and s is
\* not checked: a response with every key yields a result whose r and s are
\* the big-endian numbers of those bytes, whatever their length, and whose v
\* is the backend's.
C10_OnlyMissingKeysRaise ==
    Answered =>
        IF LacksKey
        THEN /\ last.status = "raised"
             /\ last.exc = Exc("KeyError", FirstMissing(ExpectedKeys(last.op), last.resp.fields))
             /\ last.result = NoResult
        ELSE /\ last.status = "returned"
             /\ last.result.r = BigEndian(last.resp.fields["r"].v)
             /\ last.result.s = BigEndian(last.resp.fields["s"].v)
             /\ last.result.v = last.resp.fields["v"]

C10_Witness ==
    /\ Answered
    /\ last.op = "_sign_typed_data_wrapper"
    /\ ~LacksKey
    /\ Len(last.resp.fields["r"].v) = FieldLen + 1
    /\ last.status = "returned"
    /\ last.result.r > 0

C10_WitnessMissing ==
    /\ Answered
    /\ last.op = "_account_sign_transaction_wrapper"
    /\ DOMAIN last.resp.fields = Range(TransactionKeys) \ {"hash"}
    /\ last.exc = Exc("KeyError", "hash")

----------------------------------------------------------------------------
(* Properties of the order of the steps and of error propagation *)

SigningOps == MessageOps \cup {"_sign_transaction_wrapper", "_account_sign_transaction_wrapper"}
TypedDataOps == {"_sign_typed_data_wrapper", "_account_sign_typed_data_wrapper"}
TransactionSigningOps == {"_sign_transaction_wrapper", "_account_sign_transaction_wrapper"}

\* The value holds, at any depth, a bytes object: json.dumps has no encoding
\* for it.
RECURSIVE HoldsBytes(_)
HoldsBytes(val) ==
    IF val.t = "bytes" THEN TRUE
    ELSE IF val.t = "dict" THEN \E j \in 1..Len(val.v) : HoldsBytes(val.v[j].v)
    ELSE FALSE

\* The three preparation steps of the call in `last`, told from its
\* arguments alone: the key is a str bytes.fromhex rejects; the dict holds,
\* under an allow-listed key, a digit string int() rejects; the payload holds
\* a value json.dumps rejects.
KeyStepFails ==
    last.op \in AccountOps /\ last.key.t = "str" /\ ~FromHexAccepts(StripPrefix(last.key.v))
SanitizeStepFails ==
    /\ last.op \in TransactionSigningOps
    /\ \E j \in 1..Len(last.before[1]) :
         LET e == last.before[1][j]
         IN  AllowListed(e.k) /\ e.v.t = "str" /\ IsDigit(e.v.v) /\ ~IsDecimalString(e.v)
SerializeStepFails ==
    \/ last.op \in TypedDataOps /\ HoldsBytes(last.payload)
    \/ last.op \in TransactionSigningOps /\ HoldsBytes(DictV(last.before[1]))

\* C11: in each of the six signing wrappers, a call whose key cannot be
\* decoded, whose transaction dict the sanitizer rejects or whose payload
\* json.dumps rejects raises the error of the first step that fails (key,
\* then sanitizer, then serialisation) without a single backend invocation
\* and without a result; a call on which no step fails invokes the backend
\* exactly once.
C11_PreparationFailsBeforeBackend ==
    (IsCall /\ last.op \in SigningOps) =>
        IF KeyStepFails \/ SanitizeStepFails \/ SerializeStepFails
        THEN /\ last.status = "raised"
             /\ last.calls = <<>>
             /\ last.resp = NotCalled
             /\ last.result = NoResult
             /\ last.exc = (IF KeyStepFails THEN FromHexError
                            ELSE IF SanitizeStepFails THEN Exc("ValueError", "int")
                            ELSE JsonTypeError)
        ELSE Len(last.calls) = 1

C11_Witness ==
    /\ IsCall
    /\ last.op = "_account_sign_typed_data_wrapper"
    /\ IsValidKeyForm(last.key)
    /\ SerializeStepFails
    /\ last.exc = JsonTypeError
    /\ last.calls = <<>>

C11_WitnessSanitize ==
    /\ IsCall
    /\ last.op = "_account_sign_transaction_wrapper"
    /\ IsValidKeyForm(last.key)
    /\ SanitizeStepFails
    /\ ~SerializeStepFails
    /\ last.exc.type = "ValueError"
    /\ last.calls = <<>>

\* The backend was invoked by the call in `last` and raised.
BackendFailed == IsCall /\ last.calls # <<>> /\ last.resp.exc # NoExc

\* C12: when the backend raises during one of the six signing wrappers, the
\* call ends by raising the very exception the backend raised (the except
\* clause logs and re-raises with a bare `raise`): the caller gets no result
\* object and no other exception, and the backend was invoked once.
C12_BackendFailurePropagates ==
    (BackendFailed /\ last.op \in SigningOps) =>
        /\ last.status = "raised"
        /\ last.exc = last.resp.exc
        /\ last.exc = BackendError(last.calls[1].fn)
        /\ last.result = NoResult
        /\ Len(last.calls) = 1

C12_Witness ==
    /\ BackendFailed
    /\ last.op = "_sign_hash_wrapper"
    /\ last.status = "raised"
    /\ last.exc = BackendError("sign_hash")

C12_WitnessTransaction ==
    /\ BackendFailed
    /\ last.op = "_account_sign_transaction_wrapper"
    /\ IsValidKeyForm(last.key)
    /\ Len(heap) = 2
    /\ last.exc = BackendError("sign_transaction")

C12_WitnessKeyLength ==
    /\ BackendFailed
    /\ last.op = "_account_sign_hash_wrapper"
    /\ Len(last.calls[1].key.v) # KeyLen
    /\ last.exc = BackendError("sign_hash")

----------------------------------------------------------------------------
(* Hash signing against a deterministic backend, with other signing calls  *)
(* and further patch_eth_account calls in between                          *)

\* Two valid keys, in each form the wrappers accept.
DetKeyBytes == {[i \in 1..KeyLen |-> 1], [i \in 1..KeyLen |-> 17]}
DetSelfKeys == {BytesV(b) : b \in DetKeyBytes}
DetKeyInputs == {k \in KeyInputs : IsValidKeyForm(k) /\ KeyBytes(k) \in DetKeyBytes}

\* The answers of sign_hash here: an error, or a complete response with
\* fields of the right length.
DetResponses ==
    {r \in BackendResponses("sign_hash", MessageKeys) :
        \/ r.exc # NoExc
        \/ /\ DOMAIN r.fields = Range(MessageKeys)
           /\ Len(r.fields["r"].v) = FieldLen
           /\ Len(r.fields["s"].v) = FieldLen}

\* The backend is a function of (payload, key): once it has answered a
\* request, it gives the same answer to the same request.
Asked(call) == \E a \in answers : a.payload = call.payload /\ a.key = call.key
AnswersTo(call) ==
    IF Asked(call)
    THEN {a.resp : a \in {x \in answers : x.payload = call.payload /\ x.key = call.key}}
    ELSE DetResponses
Record(call, resp) == [payload |-> call.payload, key |-> call.key, resp |-> resp]

\* What the call adds to the history of returned results.
Signature(mh, keyBytes, out) ==
    IF out.status = "returned"
    THEN {[hash |-> mh, key |-> keyBytes, result |-> out.result]}
    ELSE {}

\* The record of a hash-signing call, with whether a call with the same hash
\* and key had returned a result before it.
HashCallRecord(i, key, mh, keyBytes, resp, out) ==
    CallRecord(i, key, mh, <<>>, resp, out)
        @@ [repeated |-> \E a \in signed : a.hash = mh /\ a.key = keyBytes]

UnchangedHost == UNCHANGED <<bound, rejects, prior, imported, invoked, outcome, pc, writes>>

\* account.<LocalAccount>._sign_hash(message_hash) against that backend.
DetSignHash ==
    /\ Dispatches(1)
    /\ \E self_key \in DetSelfKeys, mh \in Hashes :
         LET call == SignHashWrapper(<<>>, self_key, mh, BackendRaises("sign_hash")).calls[1]
         IN  \E resp \in AnswersTo(call) :
               LET out == SignHashWrapper(<<>>, self_key, mh, resp)
               IN  /\ last' = HashCallRecord(1, self_key, mh, self_key.v, resp, out)
                   /\ heap' = out.heap
                   /\ answers' = answers \cup {Record(call, resp)}
                   /\ signed' = signed \cup Signature(mh, self_key.v, out)
    /\ UnchangedHost

\* Account._sign_hash(message_hash, private_key) against that backend.
DetAccountSignHash ==
    /\ Dispatches(2)
    /\ \E key \in DetKeyInputs, mh \in Hashes :
         LET probe == AccountSignHashWrapper(<<>>, mh, key, BackendRaises("sign_hash"))
         IN  IF probe.calls = <<>>
             THEN /\ last' = HashCallRecord(2, key, mh, KeyBytes(key), NotCalled, probe)
                  /\ heap' = probe.heap
                  /\ UNCHANGED <<answers, signed>>
             ELSE \E resp \in AnswersTo(probe.calls[1]) :
                    LET out == AccountSignHashWrapper(<<>>, mh, key, resp)
                    IN  /\ last' = HashCallRecord(2, key, mh, KeyBytes(key), resp, out)
                        /\ heap' = out.heap
                        /\ answers' = answers \cup {Record(probe.calls[1], resp)}
                        /\ signed' = signed \cup Signature(mh, KeyBytes(key), out)
    /\ UnchangedHost

\* One of the four other signing wrappers, on a fixed payload; its backend
\* function may answer anything, which includes every deterministic one.
DetMessage == TypedMessage(IntV(1))
DetTransaction == <<Entry("value", IntV(100))>>
OtherResponses(fn, keys) ==
    {BackendRaises(fn),
     [exc |-> NoExc, fields |-> Restrict(FullResponse(FieldLen, FieldLen, 27), Range(keys))]}
OtherSigningCall ==
    \E i \in 3..6, key \in DetSelfKeys :
      /\ Dispatches(i)
      /\ \E resp \in (IF i \in {3, 4} THEN OtherResponses("sign_typed_data", MessageKeys)
                      ELSE OtherResponses("sign_transaction", TransactionKeys)) :
           LET h == IF i \in {3, 4} THEN <<>> ELSE <<DetTransaction>>
               out == CASE i = 3 -> SignTypedDataWrapper(h, key, DetMessage, resp)
                        [] i = 4 -> AccountSignTypedDataWrapper(h, key, DetMessage, resp)
                        [] i = 5 -> SignTransactionWrapper(h, key, 1, resp)
                        [] i = 6 -> AccountSignTransactionWrapper(h, 1, key, resp)
           IN  /\ last' = CallRecord(i, key, IF i \in {3, 4} THEN DetMessage ELSE 1, h, resp, out)
               /\ heap' = out.heap
      /\ Unchanged

NextDet ==
    \/ DetSignHash
    \/ DetAccountSignHash
    \/ OtherSigningCall
    \/ PatchEthAccount
    \/ Return

SpecDet == InitSign /\ [][NextDet]_vars

IsHashSigning == IsCall /\ last.op \in {"_sign_hash_wrapper", "_account_sign_hash_wrapper"}

\* C13: against a backend that is a function of (payload, key), all the
\* hash-signing calls made with the same hash and the same key, in whatever
\* form the key is given and through either call-site, return the same
\* result (message_hash, r, s, v, signature), whatever signing calls and
\* patch_eth_account calls happen before or between them; the result is the
\* one rebuilt from the backend's answer to (hash, key bytes).
C13_HashSigningDeterministic ==
    /\ \A a \in signed, b \in signed :
         (a.hash = b.hash /\ a.key = b.key) => a.result = b.result
    /\ \A a \in signed :
         \E x \in answers :
           /\ x.payload = a.hash
           /\ x.key = BytesV(a.key)
           /\ x.resp.exc = NoExc
           /\ a.result.v = x.resp.fields["v"]
           /\ a.result.r = BigEndian(x.resp.fields["r"].v)
           /\ a.result.s = BigEndian(x.resp.fields["s"].v)
           /\ a.result.signature = HexBytes(x.resp.fields["signature"].v)

\* A call with a (hash, key) that was signed before has returned, with the
\* key in str form, after further patch_eth_account calls and while another
\* (hash, key) has a different result.
C13_Witness ==
    /\ IsHashSigning
    /\ last.op = "_account_sign_hash_wrapper"
    /\ last.status = "returned"
    /\ last.repeated
    /\ last.key.t = "str"
    /\ invoked = MaxInvocations
    /\ \E a \in signed : a.result.v # last.result.v

====
